---- MODULE Spec2Model ----
(***************************************************************************)
(* A model of the forward/backward kernels of assignment2/cs231n/layers.py *)
(* (batch normalization, dropout, convolution, max pooling).               *)
(*                                                                         *)
(* Floating-point numbers are modelled by exact rationals <<n, d>> in      *)
(* lowest terms (d > 0); the one irrational operation of the kernels,      *)
(* np.sqrt, is kept exact as a surd a + b*sqrt(r).  Arrays are sequences   *)
(* (1-based), a dictionary entry that may be missing is <<>> (missing) or  *)
(* <<v>> (present with value v).                                           *)
(***************************************************************************)
EXTENDS Integers, Sequences, FiniteSets, TLC

VARIABLES
    bn_param,   \* the caller's bn_param dictionary, threaded through the calls
    rng,        \* the state of numpy's process-wide random generator
    call,       \* the last kernel call: its arguments, results, error
    ncalls      \* number of kernel calls made so far

vars == <<bn_param, rng, call, ncalls>>

---------------------------------------------------------------------------
(* Bounds of the model *)

MaxCalls == 2       \* kernel calls in one behaviour
MaxN == 2           \* batch size N of a batch-normalization input

---------------------------------------------------------------------------
(* Optional values: a missing dictionary entry / Python's None *)

None == <<>>
Some(v) == <<v>>
IsNone(o) == o = <<>>
Val(o) == o[1]

---------------------------------------------------------------------------
(* Values computed once, before they are used *)

\* the value of Body on the value of e: a statement name = e followed by
\* the statements Body, which read name
With(e, Body(_)) == CHOOSE r \in {Body(v) : v \in {e}} : TRUE

\* the value of Body on the values of e1 and e2
With2(e1, e2, Body(_, _)) == CHOOSE r \in {Body(u, v) : u \in {e1}, v \in {e2}} : TRUE

---------------------------------------------------------------------------
(* Exact rational arithmetic *)

Abs(a) == IF a < 0 THEN -a ELSE a

RECURSIVE GCD(_, _)
GCD(a, b) == IF b = 0 THEN a ELSE GCD(b, a % b)

Norm(n, d) ==
    LET s == IF d < 0 THEN -1 ELSE 1
        g == GCD(Abs(n), Abs(d))
    IN  <<(s * n) \div g, (s * d) \div g>>

R(n) == <<n, 1>>
Frac(n, d) == Norm(n, d)
\* (sums go over the least common denominator and products are reduced
\* crosswise first, which keeps the intermediate integers small)
RAdd(a, b) ==
    With2(a, b, LAMBDA u, v :
        LET g == GCD(u[2], v[2])
        IN  Norm(u[1] * (v[2] \div g) + v[1] * (u[2] \div g), (u[2] \div g) * v[2]))
RNeg(a) == <<-a[1], a[2]>>
RSub(a, b) == RAdd(a, RNeg(b))
RMul(a, b) ==
    With2(a, b, LAMBDA u, v :
        LET g == GCD(Abs(u[1]), v[2])
            h == GCD(Abs(v[1]), u[2])
        IN  Norm((u[1] \div g) * (v[1] \div h), (u[2] \div h) * (v[2] \div g)))
RDiv(a, b) == RMul(a, Norm(b[2], b[1]))
RLt(a, b) == a[1] * b[2] < b[1] * a[2]

RECURSIVE RSumTo(_, _)
\* f[1] + ... + f[k]
RSumTo(f, k) == IF k = 0 THEN R(0) ELSE RAdd(RSumTo(f, k - 1), f[k])

RSum(f) == RSumTo(f, Len(f))

---------------------------------------------------------------------------
(* Exact square roots: the surd [rat |-> a, coef |-> b, rad |-> r] is the  *)
(* number a + b * sqrt(r), r > 0 a rational.  A rational that is a perfect *)
(* square is taken out of the root, so that equal numbers have equal       *)
(* representations.                                                        *)

RECURSIVE ISqrtIn(_, _, _)
\* the largest k with k*k <= n, given lo*lo <= n < hi*hi
ISqrtIn(n, lo, hi) ==
    IF hi - lo <= 1 THEN lo
    ELSE LET mid == (lo + hi) \div 2
         IN  IF mid * mid <= n THEN ISqrtIn(n, mid, hi) ELSE ISqrtIn(n, lo, mid)

\* (46341^2 exceeds the 32-bit integers of the model checker)
ISqrt(n) == ISqrtIn(n, 0, IF n < 46341 THEN n + 1 ELSE 46341)
IsSquare(n) == ISqrt(n) * ISqrt(n) = n

\* b / sqrt(r) + a
SurdOver(b, r, a) ==
    IF IsSquare(r[1]) /\ IsSquare(r[2])
    THEN [rat |-> RAdd(a, RDiv(b, Frac(ISqrt(r[1]), ISqrt(r[2])))),
          coef |-> R(0), rad |-> R(1)]
    ELSE IF b = R(0)
    THEN [rat |-> a, coef |-> R(0), rad |-> R(1)]
    ELSE [rat |-> a, coef |-> RDiv(b, r), rad |-> r]

\* sqrt(r)
SurdSqrt(r) == SurdOver(r, r, R(0))

---------------------------------------------------------------------------
(* Vectors (D,) and matrices (N, D) of rationals *)

\* An array computed once: TLC evaluates a function constructor anew at every
\* application unless the function has been tabulated, which binding it to
\* an element of a set and comparing it does.
Eager(f) == CHOOSE g \in {f} : g = g

Zeros(D) == [d \in 1..D |-> R(0)]
Column(x, d) == [i \in 1..Len(x) |-> x[i][d]]

\* np.mean(x, axis=0)
MeanAxis0(x, D) == Eager([d \in 1..D |-> RDiv(RSum(Column(x, d)), R(Len(x)))])

\* dict.get(key, default) on an entry that may be missing
Get(entry, default) == IF IsNone(entry) THEN default ELSE Val(entry)

---------------------------------------------------------------------------
(* batchnorm_forward *)

DefaultEps == Frac(1, 100000)
DefaultMomentum == Frac(9, 10)

\* np.mean(x, axis=0)
SampleMean(x, D) == MeanAxis0(x, D)

\* np.mean(np.square(x - sample_mean), axis=0)
SampleVar(x, D) ==
    With(SampleMean(x, D), LAMBDA m :
    With(Eager([i \in 1..Len(x) |->
                  [d \in 1..D |-> RMul(RSub(x[i][d], m[d]), RSub(x[i][d], m[d]))]]),
         LAMBDA sq :
    MeanAxis0(sq, D)))

EmaSwapped(momentum, running, stat, D) ==
    Eager([d \in 1..D |-> RAdd(RMul(RSub(R(1), momentum), running[d]),
                               RMul(momentum, stat[d]))])

\* momentum * running + (1 - momentum) * stat
Ema(momentum, running, stat, D) ==
    Eager([d \in 1..D |-> RAdd(RMul(momentum, running[d]),
                               RMul(RSub(R(1), momentum), stat[d]))])

\* bn_param['running_mean'] = running_mean; bn_param['running_var'] = running_var
StoreRunning(p, running_mean, running_var) ==
    [p EXCEPT !.running_mean = Some(running_mean),
              !.running_var = Some(running_var)]

\* the train branch
BatchnormTrain(x, gamma, beta, p, eps, momentum, running_mean, running_var, D) ==
    LET N == Len(x)
    IN
    With(SampleMean(x, D), LAMBDA sample_mean :
    With(SampleVar(x, D), LAMBDA sample_var :
    With(Eager([i \in 1..N |-> [d \in 1..D |-> RSub(x[i][d], sample_mean[d])]]),
         LAMBDA num :
    With(Eager([d \in 1..D |-> RAdd(sample_var[d], eps)]), LAMBDA rad :
    With(Eager([d \in 1..D |-> SurdSqrt(rad[d])]), LAMBDA den :
    With(Eager([i \in 1..N |-> [d \in 1..D |-> SurdOver(num[i][d], rad[d], R(0))]]),
         LAMBDA xn :
    With(Eager([i \in 1..N |->
                  [d \in 1..D |->
                     SurdOver(RMul(num[i][d], gamma[d]), rad[d], beta[d])]]),
         LAMBDA out :
    With(Ema(momentum, running_mean, sample_mean, D), LAMBDA new_mean :
    With(Ema(momentum, running_var, sample_var, D), LAMBDA new_var :
    [out |-> Some(out),
     cache |-> Some([gamma |-> gamma, beta |-> beta, eps |-> eps, x |-> x,
                     xn |-> xn, sample_mean |-> sample_mean,
                     sample_var |-> sample_var, num |-> num, den |-> den]),
     err |-> None,
     bn_param |-> StoreRunning(p, new_mean, new_var)]
    )))))))))

TestOutFromBatch(x, gamma, beta, eps, running_mean, running_var, D) ==
    LET m == SampleMean(x, D)
        v == SampleVar(x, D)
    IN  [i \in 1..Len(x) |->
           [d \in 1..D |-> SurdOver(RMul(RSub(x[i][d], m[d]), gamma[d]),
                                    RAdd(v[d], eps), beta[d])]]

\* xn = (x - running_mean)/(np.sqrt(running_var + eps)); out = xn * gamma + beta
TestOut(x, gamma, beta, eps, running_mean, running_var, D) ==
    [i \in 1..Len(x) |->
       [d \in 1..D |-> SurdOver(RMul(RSub(x[i][d], running_mean[d]), gamma[d]),
                                RAdd(running_var[d], eps), beta[d])]]

\* the test branch
BatchnormTest(x, gamma, beta, p, eps, running_mean, running_var, D) ==
    [out |-> Some(TestOut(x, gamma, beta, eps, running_mean, running_var, D)),
     cache |-> None,
     err |-> None,
     bn_param |-> StoreRunning(p, running_mean, running_var)]

ModeError(kind, text, mode) == Some([type |-> kind, text |-> text, value |-> mode])

InvalidModeAfterStore(p, mode, running_mean, running_var) ==
    [out |-> None, cache |-> None,
     err |-> ModeError("ValueError", "Invalid forward batchnorm mode", mode),
     bn_param |-> StoreRunning(p, running_mean, running_var)]

\* raise ValueError('Invalid forward batchnorm mode "%s"' % mode)
InvalidMode(p, mode, running_mean, running_var) ==
    [out |-> None, cache |-> None,
     err |-> ModeError("ValueError", "Invalid forward batchnorm mode", mode),
     bn_param |-> p]

batchnorm_forward(x, gamma, beta, p) ==
    LET mode == p.mode
        eps == Get(p.eps, DefaultEps)
        momentum == Get(p.momentum, DefaultMomentum)
        D == Len(x[1])
        running_mean == Get(p.running_mean, Zeros(D))
        running_var == Get(p.running_var, Zeros(D))
    IN  IF mode = "train"
        THEN BatchnormTrain(x, gamma, beta, p, eps, momentum,
                            running_mean, running_var, D)
        ELSE IF mode = "test"
        THEN BatchnormTest(x, gamma, beta, p, eps, running_mean, running_var, D)
        ELSE InvalidMode(p, mode, running_mean, running_var)

---------------------------------------------------------------------------
(* numpy's process-wide random generator, as a linear congruential generator *)
(* over RngMod states: np.random.seed(s) sets the state from s alone, each   *)
(* number of np.random.rand advances it and is state / RngMod, in [0, 1).    *)

RngMod == 8

SeedState(seed) == seed % RngMod
Lcg(s) == (5 * s + 3) % RngMod

RECURSIVE RandStates(_, _)
\* the states after 1, 2, ..., L draws from state s
RandStates(s, L) == IF L = 0 THEN <<>> ELSE <<Lcg(s)>> \o RandStates(Lcg(s), L - 1)

\* np.random.rand(L), from state s: the numbers and the state left behind
Rand(s, L) ==
    LET st == RandStates(s, L)
    IN  [probs |-> [k \in 1..L |-> Frac(st[k], RngMod)],
         rng |-> IF L = 0 THEN s ELSE st[L]]

---------------------------------------------------------------------------
(* dropout_forward, dropout_backward; x and dout are flattened *)

KeepSeed(rng0, seed) == rng0

\* if 'seed' in dropout_param: np.random.seed(dropout_param['seed'])
Reseed(rng0, seed) == IF IsNone(seed) THEN rng0 ELSE SeedState(Val(seed))

MaskAtMost(probs, p) == [k \in 1..Len(probs) |-> IF RLt(p, probs[k]) THEN 1 ELSE 0]

\* mask = np.ones(x.shape); mask[probs < p] = 0
Mask(probs, p) == [k \in 1..Len(probs) |-> IF RLt(probs[k], p) THEN 0 ELSE 1]

\* x * mask, dout * mask
Times(x, mask) == [k \in 1..Len(x) |-> x[k] * mask[k]]

TestOutZeroed(x) == [k \in 1..Len(x) |-> 0]

\* out = x
DropoutTestOut(x) == x

\* out.astype(x.dtype, copy=False): every element of out is 0 or an element of
\* x, which x.dtype holds exactly
AsType(out) == out

dropout_forward(x, dropout_param, rng0) ==
    LET p == dropout_param.p
        mode == dropout_param.mode
        rng1 == Reseed(rng0, dropout_param.seed)
    IN  IF mode = "train"
        THEN LET r == Rand(rng1, Len(x))
                 mask == Eager(Mask(r.probs, p))
             IN  [out |-> Some(AsType(Times(x, mask))),
                  cache |-> Some([dropout_param |-> dropout_param, mask |-> Some(mask)]),
                  err |-> None, rng |-> r.rng]
        ELSE IF mode = "test"
        THEN [out |-> Some(AsType(DropoutTestOut(x))),
              cache |-> Some([dropout_param |-> dropout_param, mask |-> None]),
              err |-> None, rng |-> rng1]
        \* out is still None: out.astype raises
        ELSE [out |-> None, cache |-> None,
              err |-> Some([type |-> "AttributeError",
                            text |-> "'NoneType' object has no attribute 'astype'",
                            value |-> "astype"]),
              rng |-> rng1]

\* dx = dout
BackwardTest(dout) == dout

dropout_backward(dout, cache) ==
    LET dropout_param == cache.dropout_param
        mask == cache.mask
        mode == dropout_param.mode
    IN  IF mode = "train"
        THEN IF IsNone(mask)
             \* dout * None
             THEN [dx |-> None,
                   err |-> Some([type |-> "TypeError",
                                 text |-> "unsupported operand type(s) for *",
                                 value |-> "NoneType"]),
                   cache |-> cache]
             ELSE [dx |-> Some(Times(dout, Val(mask))), err |-> None,
                   cache |-> cache]
        ELSE IF mode = "test"
        THEN [dx |-> Some(BackwardTest(dout)), err |-> None, cache |-> cache]
        \* dx is still None, and is returned
        ELSE [dx |-> None, err |-> None, cache |-> cache]

---------------------------------------------------------------------------
(* Four-dimensional arrays: [shape |-> <<a, b, c, d>>, data |-> f], f a      *)
(* function on the index tuples <<n, c, h, w>>, counted from 0 as in numpy.  *)

Min(a, b) == IF a < b THEN a ELSE b
Max(a, b) == IF a < b THEN b ELSE a

Idx4(shape) ==
    (0..(shape[1] - 1)) \X (0..(shape[2] - 1)) \X (0..(shape[3] - 1))
        \X (0..(shape[4] - 1))

\* np.zeros(shape)
Zeros4(shape) == [shape |-> shape, data |-> [t \in Idx4(shape) |-> 0]]

\* np.pad(x, ((0,), (0,), (pad,), (pad,)), 'constant')
Pad(x, pad) ==
    LET shape == <<x.shape[1], x.shape[2], x.shape[3] + 2 * pad, x.shape[4] + 2 * pad>>
    IN  [shape |-> shape,
         data |-> [t \in Idx4(shape) |->
                     IF /\ t[3] >= pad /\ t[3] < x.shape[3] + pad
                        /\ t[4] >= pad /\ t[4] < x.shape[4] + pad
                     THEN x.data[<<t[1], t[2], t[3] - pad, t[4] - pad>>]
                     ELSE 0]]

\* x[:, :, h0:h1, w0:w1]: a slice is cut to the array's bounds
Window(x, h0, h1, w0, w1) ==
    LET a0 == Min(h0, x.shape[3])
        a1 == Max(a0, Min(h1, x.shape[3]))
        b0 == Min(w0, x.shape[4])
        b1 == Max(b0, Min(w1, x.shape[4]))
        shape == <<x.shape[1], x.shape[2], a1 - a0, b1 - b0>>
    IN  [shape |-> shape,
         data |-> [t \in Idx4(shape) |-> x.data[<<t[1], t[2], a0 + t[3], b0 + t[4]>>]]]

Size(shape) == shape[1] * shape[2] * shape[3] * shape[4]

\* x.reshape(N, D)[n][k], in row-major order: k = (c * HH + u) * WW + v
Flat(x, n, k) ==
    LET hh == x.shape[3]
        ww == x.shape[4]
    IN  x.data[<<n, k \div (hh * ww), (k \div ww) % hh, k % ww>>]

RECURSIVE SumTo(_, _)
\* f[0] + ... + f[k - 1]
SumTo(f, k) == IF k = 0 THEN 0 ELSE SumTo(f, k - 1) + f[k - 1]

---------------------------------------------------------------------------
(* conv_forward_naive *)

\* H1 = int(1 + (H + 2 * pad - HH) / stride), for HH <= H + 2 * pad
ConvH1(H, HH, pad, stride) == 1 + (H + 2 * pad - HH) \div stride

ConvW1Unpadded(W, WW, pad, stride) == 1 + (W - WW) \div stride

\* W1 = int(1 + (W + 2 * pad - WW) / stride), for WW <= W + 2 * pad
ConvW1(W, WW, pad, stride) == 1 + (W + 2 * pad - WW) \div stride

\* for i in range(H1): for j in range(W1): the positions, in the loop's order
Positions(H1, W1) == [k \in 1..(H1 * W1) |-> <<(k - 1) \div W1, (k - 1) % W1>>]

\* np.dot(xij, wr) + b for example n and filter f, xij and wr being the
\* window and the filters reshaped to (N, D) and (D, F)
ConvDot(xij, w, b, n, f, D) ==
    SumTo([k \in 0..(D - 1) |-> Flat(xij, n, k) * Flat(w, f, k)], D) + b[f + 1]

\* the body of the loop at position <<i, j>>, on the loop's state st
ConvStep(st, x_padded, w, b, stride, i, j) ==
    LET N == x_padded.shape[1]
        F == w.shape[1]
        HH == w.shape[3]
        WW == w.shape[4]
        D == w.shape[2] * HH * WW
        xij == Window(x_padded, stride * i, stride * i + HH,
                                stride * j, stride * j + WW)
    IN  IF Size(xij.shape) # N * D
        THEN [st EXCEPT !.err = Some([type |-> "ValueError",
                                      text |-> "cannot reshape array",
                                      value |-> xij.shape]),
                        !.patches = @ \cup {<<i, j, xij.shape[3], xij.shape[4]>>}]
        ELSE [st EXCEPT
                !.out.data = Eager([t \in DOMAIN @ |->
                                IF t[3] = i /\ t[4] = j
                                THEN ConvDot(xij, w, b, t[1], t[2], D)
                                ELSE @[t]]),
                !.written = @ \cup {<<i, j>>},
                !.patches = @ \cup {<<i, j, xij.shape[3], xij.shape[4]>>}]

RECURSIVE ConvLoop(_, _, _, _, _, _, _)
\* the loop over the positions pos[k], pos[k + 1], ..., stopped by an error
ConvLoop(st, x_padded, w, b, stride, pos, k) ==
    IF k > Len(pos) \/ ~IsNone(st.err) THEN st
    ELSE ConvLoop(ConvStep(st, x_padded, w, b, stride, pos[k][1], pos[k][2]),
                  x_padded, w, b, stride, pos, k + 1)

\* the result: out, the error raised if any, the set of positions the loop
\* has written and the patches <<i, j, height, width>> it took
conv_forward_naive(x, w, b, conv_param) ==
    LET N == x.shape[1]
        H == x.shape[3]
        W == x.shape[4]
        F == w.shape[1]
        HH == w.shape[3]
        WW == w.shape[4]
        stride == Get(conv_param.stride, 1)
        pad == Get(conv_param.pad, 0)
        x_padded == Pad(x, pad)
        H1 == ConvH1(H, HH, pad, stride)
        W1 == ConvW1(W, WW, pad, stride)
        st0 == [out |-> Zeros4(<<N, F, H1, W1>>), written |-> {}, patches |-> {},
                err |-> None]
        st == ConvLoop(st0, x_padded, w, b, stride, Positions(H1, W1), 1)
    IN  IF IsNone(st.err)
        THEN [out |-> Some(st.out),
              cache |-> Some([x |-> x, w |-> w, b |-> b, conv_param |-> conv_param]),
              err |-> None, written |-> st.written, patches |-> st.patches]
        ELSE [out |-> None, cache |-> None, err |-> st.err, written |-> st.written,
              patches |-> st.patches]

---------------------------------------------------------------------------
(* max_pool_forward_naive, max_pool_backward_naive *)

PoolH1Up(H, HH, stride) == (H - HH + stride - 1) \div stride + 1

\* H1 = int((H - HH)/stride + 1), for HH <= H
PoolH1(H, HH, stride) == (H - HH) \div stride + 1

\* W1 = int((W - WW)/stride + 1), for WW <= W
PoolW1(W, WW, stride) == (W - WW) \div stride + 1

RECURSIVE MaxOver(_, _)
\* the largest f[t], t in the nonempty set T
MaxOver(f, T) ==
    LET t == CHOOSE u \in T : TRUE
    IN  IF T = {t} THEN f[t] ELSE Max(f[t], MaxOver(f, T \ {t}))

\* np.amax(xij, axis=(2, 3))[n][c]
AMax(xij, n, c) ==
    MaxOver(xij.data, {t \in DOMAIN xij.data : t[1] = n /\ t[2] = c})

\* the body of the forward loop at position <<i, j>>
PoolStep(st, x, HH, WW, stride, i, j) ==
    LET xij == Window(x, stride * i, stride * i + HH, stride * j, stride * j + WW)
    IN  IF Size(xij.shape) = 0
        THEN [st EXCEPT !.err = Some([type |-> "ValueError",
                                      text |-> "zero-size array to reduction operation",
                                      value |-> xij.shape]),
                        !.patches = @ \cup {<<i, j, xij.shape[3], xij.shape[4]>>}]
        ELSE [st EXCEPT
                !.out.data = Eager([t \in DOMAIN @ |->
                                IF t[3] = i /\ t[4] = j
                                THEN AMax(xij, t[1], t[2])
                                ELSE @[t]]),
                !.written = @ \cup {<<i, j>>},
                !.patches = @ \cup {<<i, j, xij.shape[3], xij.shape[4]>>}]

RECURSIVE PoolLoop(_, _, _, _, _, _, _)
PoolLoop(st, x, HH, WW, stride, pos, k) ==
    IF k > Len(pos) \/ ~IsNone(st.err) THEN st
    ELSE PoolLoop(PoolStep(st, x, HH, WW, stride, pos[k][1], pos[k][2]),
                  x, HH, WW, stride, pos, k + 1)

max_pool_forward_naive(x, pool_param) ==
    LET N == x.shape[1]
        C == x.shape[2]
        H == x.shape[3]
        W == x.shape[4]
        HH == Get(pool_param.pool_height, H)
        WW == Get(pool_param.pool_width, W)
        stride == Get(pool_param.stride, 1)
        H1 == PoolH1(H, HH, stride)
        W1 == PoolW1(W, WW, stride)
        st0 == [out |-> Zeros4(<<N, C, H1, W1>>), written |-> {}, patches |-> {},
                err |-> None]
        st == PoolLoop(st0, x, HH, WW, stride, Positions(H1, W1), 1)
    IN  IF IsNone(st.err)
        THEN [out |-> Some(st.out),
              cache |-> Some([x |-> x, out |-> st.out, pool_param |-> pool_param]),
              err |-> None, written |-> st.written, patches |-> st.patches]
        ELSE [out |-> None, cache |-> None, err |-> st.err, written |-> st.written,
              patches |-> st.patches]

\* np.repeat(a[:, :, i, j], HH * WW).reshape(shape)[t]: the element at the
\* row-major place k of the reshaped array is the (k div HH*WW)-th one of
\* a[:, :, i, j]
Repeated(a, i, j, HH, WW, shape, t) ==
    LET k == ((t[1] * shape[2] + t[2]) * shape[3] + t[3]) * shape[4] + t[4]
        m == k \div (HH * WW)
    IN  a.data[<<m \div a.shape[2], m % a.shape[2], i, j>>]

MaskFirstOnly(xij, outij, t) ==
    /\ xij.data[t] = outij[t]
    /\ \A u \in DOMAIN xij.data :
          (u[1] = t[1] /\ u[2] = t[2] /\ xij.data[u] = outij[u]) =>
              (u[3] > t[3] \/ (u[3] = t[3] /\ u[4] >= t[4]))

\* maskij = xij == outij, at t
MaskAt(xij, outij, t) == xij.data[t] = outij[t]

Overwritten(old, dxij) == dxij

\* dx[window] += dxij, at one element
Accumulated(old, dxij) == old + dxij

\* the body of the backward loop at position <<i, j>>, on dx
PoolBackStep(st, x, out, dout, HH, WW, stride, i, j) ==
    LET xij == Window(x, stride * i, stride * i + HH, stride * j, stride * j + WW)
    IN  IF Size(xij.shape) # x.shape[1] * x.shape[2] * HH * WW
        THEN [st EXCEPT !.err = Some([type |-> "ValueError",
                                      text |-> "cannot reshape array",
                                      value |-> xij.shape]),
                        !.patches = @ \cup {<<i, j, xij.shape[3], xij.shape[4]>>}]
        ELSE LET outij == Eager([t \in DOMAIN xij.data |->
                                   Repeated(out, i, j, HH, WW, xij.shape, t)])
                 doutij == Eager([t \in DOMAIN xij.data |->
                                    Repeated(dout, i, j, HH, WW, xij.shape, t)])
                 dxij == Eager([t \in DOMAIN xij.data |->
                                  (IF MaskAt(xij, outij, t) THEN 1 ELSE 0) * doutij[t]])
             IN  [st EXCEPT
                    !.dx.data = Eager([t \in DOMAIN @ |->
                        IF /\ t[3] >= stride * i /\ t[3] < stride * i + HH
                           /\ t[4] >= stride * j /\ t[4] < stride * j + WW
                        THEN Accumulated(@[t],
                                 dxij[<<t[1], t[2], t[3] - stride * i, t[4] - stride * j>>])
                        ELSE @[t]]),
                    !.patches = @ \cup {<<i, j, xij.shape[3], xij.shape[4]>>}]

RECURSIVE PoolBackLoop(_, _, _, _, _, _, _, _, _)
PoolBackLoop(st, x, out, dout, HH, WW, stride, pos, k) ==
    IF k > Len(pos) \/ ~IsNone(st.err) THEN st
    ELSE PoolBackLoop(PoolBackStep(st, x, out, dout, HH, WW, stride,
                                   pos[k][1], pos[k][2]),
                      x, out, dout, HH, WW, stride, pos, k + 1)

max_pool_backward_naive(dout, cache) ==
    LET x == cache.x
        out == cache.out
        pool_param == cache.pool_param
        H == x.shape[3]
        W == x.shape[4]
        HH == Get(pool_param.pool_height, H)
        WW == Get(pool_param.pool_width, W)
        stride == Get(pool_param.stride, 1)
        H1 == PoolH1(H, HH, stride)
        W1 == PoolW1(W, WW, stride)
        st0 == [dx |-> Zeros4(x.shape), patches |-> {}, err |-> None]
        st == PoolBackLoop(st0, x, out, dout, HH, WW, stride, Positions(H1, W1), 1)
    IN  IF IsNone(st.err)
        THEN [dx |-> Some(st.dx), err |-> None, cache |-> cache,
              patches |-> st.patches]
        ELSE [dx |-> None, err |-> st.err, cache |-> cache, patches |-> st.patches]

---------------------------------------------------------------------------
(* The arrays a backward kernel writes in place.  A statement such as        *)
(* dx += a changes the array its left side refers to; that array is an entry *)
(* of the cache only if the name was bound to one.                           *)

\* the cache after an in-place statement has stored value into target
InPlace(cache, target, value) ==
    IF target \in DOMAIN cache THEN [cache EXCEPT ![target] = value] ELSE cache

---------------------------------------------------------------------------
(* Arithmetic on surds.  The numbers of one feature d all lie in the field  *)
(* of the a + b * sqrt(r), r = sample_var[d] + eps, so two operands have    *)
(* the same radicand or one of them is rational.                            *)

\* a + b * sqrt(r), in the representation equal numbers share
SNorm(a, b, r) ==
    IF b = R(0) THEN [rat |-> a, coef |-> R(0), rad |-> R(1)]
    ELSE IF IsSquare(r[1]) /\ IsSquare(r[2])
    THEN [rat |-> RAdd(a, RMul(b, Frac(ISqrt(r[1]), ISqrt(r[2])))),
          coef |-> R(0), rad |-> R(1)]
    ELSE [rat |-> a, coef |-> b, rad |-> r]

SOfR(q) == [rat |-> q, coef |-> R(0), rad |-> R(1)]
SRad(s, t) == IF s.coef # R(0) THEN s.rad ELSE t.rad
SAdd(s, t) == SNorm(RAdd(s.rat, t.rat), RAdd(s.coef, t.coef), SRad(s, t))
SNeg(s) == [rat |-> RNeg(s.rat), coef |-> RNeg(s.coef), rad |-> s.rad]
SSub(s, t) == SAdd(s, SNeg(t))
SMul(s, t) ==
    LET r == SRad(s, t)
    IN  SNorm(RAdd(RMul(s.rat, t.rat), RMul(RMul(s.coef, t.coef), r)),
              RAdd(RMul(s.rat, t.coef), RMul(s.coef, t.rat)), r)
\* 1 / (a + b sqrt(r)) = (a - b sqrt(r)) / (a^2 - b^2 r)
SInv(s) ==
    LET n == RSub(RMul(s.rat, s.rat), RMul(RMul(s.coef, s.coef), s.rad))
    IN  SNorm(RDiv(s.rat, n), RNeg(RDiv(s.coef, n)), s.rad)
SDiv(s, t) == SMul(s, SInv(t))

RECURSIVE SSumTo(_, _)
\* f[1] + ... + f[k]
SSumTo(f, k) == IF k = 0 THEN SOfR(R(0)) ELSE SAdd(SSumTo(f, k - 1), f[k])
SSum(f) == SSumTo(f, Len(f))

---------------------------------------------------------------------------
(* batchnorm_backward, batchnorm_backward_alt; c is the cache or None *)

\* gamma, beta, ... = cache, on a cache that is None
UnpackError ==
    Some([type |-> "TypeError", text |-> "cannot unpack non-iterable NoneType object",
          value |-> "NoneType"])

\* np.sum(dout * xn, axis=0)
DGamma(dout, xn, D) ==
    Eager([d \in 1..D |->
             SSum([i \in 1..Len(dout) |-> SMul(SOfR(dout[i][d]), xn[i][d])])])

DBetaMean(dout, D) ==
    Eager([d \in 1..D |-> RDiv(RSum(Column(dout, d)), R(Len(dout)))])

\* np.sum(dout, axis=0)
DBeta(dout, D) == Eager([d \in 1..D |-> RSum(Column(dout, d))])

\* dx = 1.0 * dnum: the array that dx += ... writes is a new one
BnDxTarget == "dx"

batchnorm_backward(dout, c) ==
    IF IsNone(c)
    THEN [dx |-> None, dgamma |-> None, dbeta |-> None, err |-> UnpackError,
          cache |-> c]
    ELSE
    LET cache == Val(c)
        gamma == cache.gamma
        x == cache.x
        xn == cache.xn
        smean == cache.sample_mean
        num == cache.num
        den == cache.den
        N == Len(x)
        D == Len(gamma)
    IN
    \* dxn = dout * gamma
    With(Eager([i \in 1..N |-> [d \in 1..D |-> RMul(dout[i][d], gamma[d])]]),
         LAMBDA dxn :
    \* invden = 1.0/den
    With(Eager([d \in 1..D |-> SInv(den[d])]), LAMBDA invden :
    \* dnum = dxn * invden
    With(Eager([i \in 1..N |-> [d \in 1..D |-> SMul(SOfR(dxn[i][d]), invden[d])]]),
         LAMBDA dnum :
    \* dx = 1.0 * dnum
    With(Eager([i \in 1..N |-> [d \in 1..D |-> SMul(SOfR(R(1)), dnum[i][d])]]),
         LAMBDA dx0 :
    \* dsmean = -1.0 * np.sum(dnum, axis=0)
    With(Eager([d \in 1..D |-> SNeg(SSum([i \in 1..N |-> dnum[i][d]]))]),
         LAMBDA dsmean0 :
    \* dinvden = np.sum(dxn * num, axis=0)
    With(Eager([d \in 1..D |-> RSum([i \in 1..N |-> RMul(dxn[i][d], num[i][d])])]),
         LAMBDA dinvden :
    \* dden = (-1.0 / np.square(den)) * dinvden
    With(Eager([d \in 1..D |->
                  SMul(SNeg(SInv(SMul(den[d], den[d]))), SOfR(dinvden[d]))]),
         LAMBDA dden :
    \* dsvar = dsvareps = (0.5 / den) * dden
    With(Eager([d \in 1..D |-> SMul(SDiv(SOfR(Frac(1, 2)), den[d]), dden[d])]),
         LAMBDA dsvar :
    \* dsmean += 2.0 * dsvar * np.mean(x - smean, axis=0)
    With(Eager([d \in 1..D |->
                  SAdd(dsmean0[d],
                       SMul(SMul(SOfR(R(2)), dsvar[d]),
                            SOfR(RDiv(RSum([i \in 1..N |-> RSub(x[i][d], smean[d])]),
                                      R(N)))))]),
         LAMBDA dsmean :
    \* dx += 2.0 * dsvar * (x - smean)/x.shape[0]
    With(Eager([i \in 1..N |->
                  [d \in 1..D |->
                     SAdd(dx0[i][d],
                          SDiv(SMul(SMul(SOfR(R(2)), dsvar[d]),
                                    SOfR(RSub(x[i][d], smean[d]))),
                               SOfR(R(N))))]]),
         LAMBDA dx1 :
    \* dx += np.ones(x.shape) * dsmean/x.shape[0]
    With(Eager([i \in 1..N |->
                  [d \in 1..D |-> SAdd(dx1[i][d], SDiv(dsmean[d], SOfR(R(N))))]]),
         LAMBDA dx2 :
    [dx |-> Some(dx2), dgamma |-> Some(DGamma(dout, xn, D)),
     dbeta |-> Some(DBeta(dout, D)), err |-> None,
     cache |-> Some(InPlace(InPlace(cache, BnDxTarget, dx1), BnDxTarget, dx2))]
    )))))))))))

AltScaleNoN(gamma, N, rad) == SMul(SOfR(gamma), SInv(SurdSqrt(rad)))

\* gamma / N / np.sqrt(svar + eps)
AltScale(gamma, N, rad) == SDiv(SOfR(RDiv(gamma, R(N))), SurdSqrt(rad))

batchnorm_backward_alt(dout, c) ==
    IF IsNone(c)
    THEN [dx |-> None, dgamma |-> None, dbeta |-> None, err |-> UnpackError,
          cache |-> c]
    ELSE
    LET cache == Val(c)
        gamma == cache.gamma
        eps == cache.eps
        x == cache.x
        xn == cache.xn
        smean == cache.sample_mean
        svar == cache.sample_var
        N == Len(x)
        D == Len(gamma)
    IN
    With(DBeta(dout, D), LAMBDA sumdout :
    \* dx = N * dout - np.sum(dout, axis=0)
    With(Eager([i \in 1..N |->
                  [d \in 1..D |-> RSub(RMul(R(N), dout[i][d]), sumdout[d])]]),
         LAMBDA dx0 :
    \* np.sum(dout * (x - smean), axis=0)
    With(Eager([d \in 1..D |->
                  RSum([i \in 1..N |-> RMul(dout[i][d], RSub(x[i][d], smean[d]))])]),
         LAMBDA proj :
    \* dx -= (x - smean) * np.sum(dout * (x - smean), axis=0)/(svar + eps)
    With(Eager([i \in 1..N |->
                  [d \in 1..D |->
                     RSub(dx0[i][d],
                          RDiv(RMul(RSub(x[i][d], smean[d]), proj[d]),
                               RAdd(svar[d], eps)))]]),
         LAMBDA dx1 :
    \* dx *= gamma / N / np.sqrt(svar + eps)
    With(Eager([d \in 1..D |-> AltScale(gamma[d], N, RAdd(svar[d], eps))]),
         LAMBDA scale :
    With(Eager([i \in 1..N |-> [d \in 1..D |-> SMul(SOfR(dx1[i][d]), scale[d])]]),
         LAMBDA dx2 :
    [dx |-> Some(dx2), dgamma |-> Some(DGamma(dout, xn, D)),
     dbeta |-> Some(sumdout), err |-> None,
     cache |-> Some(InPlace(InPlace(cache, BnDxTarget, dx1), BnDxTarget, dx2))]
    ))))))

---------------------------------------------------------------------------
(* spatial_batchnorm_forward, spatial_batchnorm_backward *)

\* a.transpose(0, 2, 3, 1).reshape(N*H*W, C): row (n*H + h)*W + w holds the C
\* channels of the location <<n, h, w>>
ChannelsLast(a) ==
    LET N == a.shape[1]
        C == a.shape[2]
        H == a.shape[3]
        W == a.shape[4]
    IN  Eager([m \in 1..(N * H * W) |->
                 [c \in 1..C |->
                    a.data[<<(m - 1) \div (H * W), c - 1,
                             ((m - 1) \div W) % H, (m - 1) % W>>]]])

\* r.reshape(N, H, W, C).transpose(0, 3, 1, 2)
ChannelsSecond(r, N, C, H, W) ==
    [shape |-> <<N, C, H, W>>,
     data |-> Eager([t \in Idx4(<<N, C, H, W>>) |->
                       r[(t[1] * H + t[3]) * W + t[4] + 1][t[2] + 1]])]

spatial_batchnorm_forward(x, gamma, beta, p) ==
    LET N == x.shape[1]
        C == x.shape[2]
        H == x.shape[3]
        W == x.shape[4]
    IN  With(batchnorm_forward(ChannelsLast(x), gamma, beta, p), LAMBDA r :
        IF IsNone(r.err)
        THEN [out |-> Some(ChannelsSecond(Val(r.out), N, C, H, W)),
              cache |-> r.cache, err |-> None, bn_param |-> r.bn_param]
        ELSE [out |-> None, cache |-> None, err |-> r.err, bn_param |-> r.bn_param])

spatial_batchnorm_backward(dout, c) ==
    LET N == dout.shape[1]
        C == dout.shape[2]
        H == dout.shape[3]
        W == dout.shape[4]
    IN  With(batchnorm_backward_alt(ChannelsLast(dout), c), LAMBDA r :
        IF IsNone(r.err)
        THEN [dx |-> Some(ChannelsSecond(Val(r.dx), N, C, H, W)),
              dgamma |-> r.dgamma, dbeta |-> r.dbeta, err |-> None,
              cache |-> r.cache]
        ELSE [dx |-> None, dgamma |-> None, dbeta |-> None, err |-> r.err,
              cache |-> r.cache])

---------------------------------------------------------------------------
(* affine_forward, affine_backward: x is an array (N, d_1, d_2, d_3), w a  *)
(* matrix (D, M) and b a vector (M,), matrices being sequences of rows      *)

\* the place of index t in the row of x.reshape(N, D)
FlatIndex(shape, t) == (t[2] * shape[3] + t[3]) * shape[4] + t[4]

RECURSIVE SumSeq(_, _)
\* f[1] + ... + f[k]
SumSeq(f, k) == IF k = 0 THEN 0 ELSE SumSeq(f, k - 1) + f[k]

affine_forward(x, w, b) ==
    LET N == x.shape[1]
        D == x.shape[2] * x.shape[3] * x.shape[4]
        M == Len(b)
    IN  IF D # Len(w) \/ Len(w[1]) # M
        THEN [out |-> None, cache |-> None,
              err |-> Some([type |-> "ValueError", text |-> "shapes not aligned",
                            value |-> <<N, D>>])]
        ELSE [out |-> Some(Eager([n \in 1..N |->
                         [m \in 1..M |->
                            SumSeq([k \in 1..D |-> Flat(x, n - 1, k - 1) * w[k][m]], D)
                              + b[m]]])),
              cache |-> Some([x |-> x, w |-> w, b |-> b]),
              err |-> None]

\* dX.reshape(x.shape)
ReshapeLike(dX, shape) ==
    [shape |-> shape,
     data |-> Eager([t \in Idx4(shape) |-> dX[t[1] + 1][FlatIndex(shape, t) + 1]])]

affine_backward(dout, cache) ==
    LET x == cache.x
        w == cache.w
        N == x.shape[1]
        D == Len(w)
        M == Len(w[1])
        \* dX = np.dot(dout, w.T)
        dX == Eager([n \in 1..N |->
                 [k \in 1..D |-> SumSeq([m \in 1..M |-> dout[n][m] * w[k][m]], M)]])
        dx == ReshapeLike(dX, x.shape)
        \* dw = np.dot(x.reshape(dX.shape).T, dout)
        dw == Eager([k \in 1..D |->
                 [m \in 1..M |->
                    SumSeq([n \in 1..N |-> Flat(x, n - 1, k - 1) * dout[n][m]], N)]])
        \* db = np.dot(dout.T, np.ones(x.shape[0]))
        db == Eager([m \in 1..M |-> SumSeq([n \in 1..N |-> dout[n][m]], N)])
    IN  [dx |-> Some(dx), dw |-> Some(dw), db |-> Some(db), err |-> None,
         cache |-> cache]

---------------------------------------------------------------------------
(* relu_forward, relu_backward; x and dout are flattened *)

\* out = np.maximum(0, x); cache = x
relu_forward(x) ==
    [out |-> Some([k \in 1..Len(x) |-> Max(0, x[k])]), cache |-> Some([x |-> x]),
     err |-> None]

\* dx = np.where(x >= 0, dout, 0)
relu_backward(dout, cache) ==
    [dx |-> Some([k \in 1..Len(dout) |-> IF cache.x[k] >= 0 THEN dout[k] ELSE 0]),
     err |-> None, cache |-> cache]

---------------------------------------------------------------------------
(* conv_backward_naive *)

ConvDbAliasesB == "b"

\* db = np.zeros(b.shape): the array that db += ... writes is a new one
ConvDbTarget == "db"

ConvDxUnstripped(dx_padded, pad, H, W) == dx_padded

\* dx = dx_padded[:, :, pad:H+pad, pad:W+pad]
ConvDxStripped(dx_padded, pad, H, W) == Window(dx_padded, pad, H + pad, pad, W + pad)

\* the body of the loop at position <<i, j>>, on the loop's state st
ConvBackStep(st, x_padded, w, dout, stride, i, j) ==
    LET N == x_padded.shape[1]
        C == w.shape[2]
        F == w.shape[1]
        HH == w.shape[3]
        WW == w.shape[4]
        D == C * HH * WW
        xij == Window(x_padded, stride * i, stride * i + HH,
                                stride * j, stride * j + WW)
        \* dO = dout[:, :, i, j]
        dO == Eager([nf \in (0..(N - 1)) \X (0..(F - 1)) |->
                       dout.data[<<nf[1], nf[2], i, j>>]])
    IN  IF Size(xij.shape) # N * D
        THEN [st EXCEPT !.err = Some([type |-> "ValueError",
                                      text |-> "cannot reshape array",
                                      value |-> xij.shape]),
                        !.patches = @ \cup {<<i, j, xij.shape[3], xij.shape[4]>>}]
        ELSE LET \* dxij = np.dot(dO, wr).reshape(N, C, HH, WW)
                 dxij == Eager([t \in Idx4(<<N, C, HH, WW>>) |->
                            SumTo([f \in 0..(F - 1) |->
                                     dO[<<t[1], f>>] * w.data[<<f, t[2], t[3], t[4]>>]], F)])
             IN  [st EXCEPT
                    \* dx_padded[:, :, stride*i:stride*i+HH, stride*j:stride*j+WW] += dxij
                    !.dx_padded.data = Eager([t \in DOMAIN @ |->
                        IF /\ t[3] >= stride * i /\ t[3] < stride * i + HH
                           /\ t[4] >= stride * j /\ t[4] < stride * j + WW
                        THEN @[t] + dxij[<<t[1], t[2], t[3] - stride * i,
                                           t[4] - stride * j>>]
                        ELSE @[t]]),
                    \* dwr += np.dot(dO.T, xij)
                    !.dwr = Eager([fk \in DOMAIN @ |->
                        @[fk] + SumTo([n \in 0..(N - 1) |->
                                         dO[<<n, fk[1]>>] * Flat(xij, n, fk[2])], N)]),
                    \* db += np.dot(dO.T, np.ones(N))
                    !.db = Eager([f \in DOMAIN @ |->
                        @[f] + SumTo([n \in 0..(N - 1) |-> dO[<<n, f - 1>>]], N)]),
                    !.patches = @ \cup {<<i, j, xij.shape[3], xij.shape[4]>>}]

RECURSIVE ConvBackLoop(_, _, _, _, _, _, _)
ConvBackLoop(st, x_padded, w, dout, stride, pos, k) ==
    IF k > Len(pos) \/ ~IsNone(st.err) THEN st
    ELSE ConvBackLoop(ConvBackStep(st, x_padded, w, dout, stride,
                                   pos[k][1], pos[k][2]),
                      x_padded, w, dout, stride, pos, k + 1)

\* the result: the three gradients, the error raised if any, the cache as
\* the call leaves it and the patches <<i, j, height, width>> the loop took
conv_backward_naive(dout, cache) ==
    LET x == cache.x
        w == cache.w
        b == cache.b
        conv_param == cache.conv_param
        N == x.shape[1]
        C == x.shape[2]
        H == x.shape[3]
        W == x.shape[4]
        F == w.shape[1]
        HH == w.shape[3]
        WW == w.shape[4]
        D == C * HH * WW
        stride == Get(conv_param.stride, 1)
        pad == Get(conv_param.pad, 0)
        x_padded == Pad(x, pad)
        H1 == ConvH1(H, HH, pad, stride)
        W1 == ConvW1(W, WW, pad, stride)
        st0 == [dx_padded |-> Zeros4(x_padded.shape),
                dwr |-> [fk \in (0..(F - 1)) \X (0..(D - 1)) |-> 0],
                db |-> [f \in 1..Len(b) |-> 0],
                patches |-> {}, err |-> None]
        st == ConvBackLoop(st0, x_padded, w, dout, stride, Positions(H1, W1), 1)
        \* dw = dwr.reshape(F, C, HH, WW)
        dw == [shape |-> <<F, C, HH, WW>>,
               data |-> Eager([t \in Idx4(<<F, C, HH, WW>>) |->
                                 st.dwr[<<t[1], FlatIndex(<<F, C, HH, WW>>, t)>>]])]
    IN  IF IsNone(st.err)
        THEN [dx |-> Some(ConvDxStripped(st.dx_padded, pad, H, W)),
              dw |-> Some(dw), db |-> Some(st.db), err |-> None,
              cache |-> InPlace(cache, ConvDbTarget, st.db),
              patches |-> st.patches]
        ELSE [dx |-> None, dw |-> None, db |-> None, err |-> st.err,
              cache |-> cache, patches |-> st.patches]

---------------------------------------------------------------------------
(* svm_loss: x is an (N, C) matrix of scores, y the labels, counted from 0 *)

RMax(a, b) == IF RLt(a, b) THEN b ELSE a

\* x - correct_class_scores[:, np.newaxis] + 1.0, at one entry
MarginOf(score, correct) == RAdd(RSub(score, correct), R(1))

MarginsKeepCorrect(m, y) == m

\* margins[np.arange(N), y] = 0
MarginsZeroCorrect(m, y) ==
    Eager([i \in 1..Len(m) |->
             [j \in 1..Len(m[i]) |-> IF j = y[i] + 1 THEN R(0) ELSE m[i][j]]])

\* the number of entries of a row that are > 0
CountPos(row) == Cardinality({j \in 1..Len(row) : RLt(R(0), row[j])})

svm_loss(x, y) ==
    LET N == Len(x)
        C == Len(x[1])
        correct_class_scores == [i \in 1..N |-> x[i][y[i] + 1]]
        margins0 == Eager([i \in 1..N |->
                       [j \in 1..C |->
                          RMax(R(0), MarginOf(x[i][j], correct_class_scores[i]))]])
        margins == MarginsZeroCorrect(margins0, y)
        loss == RDiv(RSum([i \in 1..N |-> RSum(margins[i])]), R(N))
        num_pos == [i \in 1..N |-> CountPos(margins[i])]
        dx1 == Eager([i \in 1..N |->
                  [j \in 1..C |-> IF RLt(R(0), margins[i][j]) THEN R(1) ELSE R(0)]])
        dx2 == Eager([i \in 1..N |->
                  [j \in 1..C |-> IF j = y[i] + 1
                                  THEN RSub(dx1[i][j], R(num_pos[i]))
                                  ELSE dx1[i][j]]])
        dx == Eager([i \in 1..N |-> [j \in 1..C |-> RDiv(dx2[i][j], R(N))]])
    IN  [loss |-> loss, dx |-> dx]

---------------------------------------------------------------------------
(* Inputs of the batch-normalization calls *)

\* the examples (rows of D features) a batch is made of
XRows == {<<R(0), R(3)>>, <<R(3), R(1)>>}
DVals == {Len(row) : row \in XRows}
Modes == {"train", "test", "valid"}

Batches(D) == UNION {[1..N -> {row \in XRows : Len(row) = D}] : N \in 1..MaxN}

\* (gamma, beta) pairs: gamma = (2, 3, ...), beta = (1, 2, ...)
GammaBeta(D) == {<<[d \in 1..D |-> R(d + 1)], [d \in 1..D |-> R(d)]>>}

\* the dictionaries a caller starts from: no running statistics yet, eps and
\* momentum left to their defaults or set
InitBnParams ==
    {[mode |-> "train", eps |-> em[1], momentum |-> em[2],
      running_mean |-> None, running_var |-> None] :
        em \in {<<None, None>>, <<Some(R(1)), Some(Frac(1, 2))>>}}

\* the flattened inputs and upstream gradients of the dropout calls
MaxLen == 2
DropoutInputs ==
    UNION {{[k \in 1..L |-> k + 1], [k \in 1..L |-> k - 3]} : L \in 1..MaxLen}
Seeds == {None, Some(3), Some(13)}
DropoutParams ==
    [p : {R(0), Frac(1, 2), R(1)}, mode : Modes, seed : Seeds]

\* the inputs of the convolution and pooling calls: an array of a shape,
\* filled with a pattern of small integers
MaxHW == 3          \* height and width of an input
MaxStride == 2
MaxPad == 1
Pattern(shape, a) ==
    [shape |-> shape,
     data |-> [t \in Idx4(shape) |->
                 ((7 * t[1] + 5 * t[2] + 3 * t[3] + 2 * t[4] + a) % 5) - 2]]

\* (N, C, F)
Channels == {<<1, 1, 1>>, <<2, 1, 2>>, <<1, 2, 1>>}
KernelSizes == {1, 2, 3}

\* the configurations with a filter no larger than the padded input
ConvConfigs ==
    {cf \in [ncf : Channels, H : 1..MaxHW, W : 1..MaxHW, HH : KernelSizes,
             WW : KernelSizes,
             stride : {Some(v) : v \in 1..MaxStride} \cup {None},
             pad : {Some(v) : v \in 0..MaxPad} \cup {None}] :
        /\ cf.HH <= cf.H + 2 * Get(cf.pad, 0)
        /\ cf.WW <= cf.W + 2 * Get(cf.pad, 0)}

\* the inputs of the pooling calls: x[n, c, h, w] is a polynomial in h and w
\* modulo 4, shifted with n and c; among them are arrays with ties and arrays
\* with one maximum in every window
PoolCoefs == {0} \X (0..3) \X (0..3) \X {0, 1}
PoolInput(shape, a) ==
    [shape |-> shape,
     data |-> [t \in Idx4(shape) |->
                 (a[1] + a[2] * t[3] + a[3] * t[4] + a[4] * t[3] * t[4]
                    + t[1] + 2 * t[2]) % 4]]
PoolBatches == {<<1, 1>>, <<2, 2>>}

\* all three parameters given, the window no larger than the input, or all
\* three left to their defaults
PoolConfigs ==
    {cf \in [H : 1..MaxHW, W : 1..MaxHW, pool_height : {Some(v) : v \in 1..MaxHW},
             pool_width : {Some(v) : v \in 1..MaxHW},
             stride : {Some(v) : v \in 1..MaxStride}] :
        Val(cf.pool_height) <= cf.H /\ Val(cf.pool_width) <= cf.W}
    \cup [H : 1..MaxHW, W : 1..MaxHW, pool_height : {None}, pool_width : {None},
          stride : {None}]

\* an upstream gradient: a different positive number for every output
Upstream(shape) ==
    [shape |-> shape,
     data |-> [t \in Idx4(shape) |->
                 1 + ((t[1] * shape[2] + t[2]) * shape[3] + t[3]) * shape[4] + t[4]]]

\* the inputs of the loss: a row of scores with its label
SvmScores == {R(0), Frac(1, 2), R(1), R(2)}
SvmExamples ==
    {<<row, l>> : row \in [1..2 -> SvmScores], l \in 0..1}
      \cup {<<row, l>> : row \in {<<R(2), R(1), R(0)>>, <<R(0), R(1), R(2)>>,
                                  <<R(1), R(1), R(1)>>, <<R(3), R(1), R(2)>>},
                         l \in 0..2}
\* batches of examples with the same number of classes
SvmBatches ==
    UNION {{b \in [1..N -> SvmExamples] :
               \A i \in 1..N : Len(b[i][1]) = Len(b[1][1])} : N \in 1..MaxN}

\* the upstream gradients of the batch-normalization calls
DoutRows == {<<R(1), R(2)>>, <<R(-1), Frac(1, 2)>>}
Douts(N, D) == [1..N -> {row \in DoutRows : Len(row) = D}]

\* the inputs of the spatial batch normalization: C = 2 channels, and a
\* height and width of 1 or 2
SpatialHW == {<<1, 1>>, <<1, 2>>, <<2, 1>>}
SpatialInput(shape, a) ==
    [shape |-> shape,
     data |-> Eager([t \in Idx4(shape) |->
                 R((a + 3 * t[1] + 2 * t[2] + t[3] + 3 * t[4]) % 4)])]
SpatialUpstream(shape) ==
    [shape |-> shape,
     data |-> Eager([t \in Idx4(shape) |->
                 Frac(1 + 2 * t[1] + t[2] + 3 * t[3] + t[4], 1 + t[2])])]

\* the inputs of the affine calls: x of shape (N, d_1, d_2, d_3), M outputs
AffineDims == {<<1, 1, 1>>, <<2, 1, 1>>, <<2, 1, 2>>, <<1, 3, 1>>}
AffineM == {1, 2}
AffineW(D, M) == [k \in 1..D |-> [m \in 1..M |-> ((k + 2 * m) % 3) - 1]]
AffineB(M) == [m \in 1..M |-> m]
AffineUpstream(N, M) == [n \in 1..N |-> [m \in 1..M |-> 2 * n - 3 * m + 2]]

\* the feature dimensions a call on bn_param may have
DimsOf(p) == IF IsNone(p.running_mean) THEN DVals ELSE {Len(Val(p.running_mean))}

---------------------------------------------------------------------------
(* The state machine *)

NoCall == [op |-> "none"]

\* numpy seeds its generator from the system's entropy when it is imported
Init ==
    /\ bn_param \in InitBnParams
    /\ rng \in 0..(RngMod - 1)
    /\ call = NoCall
    /\ ncalls = 0

\* the caller sets bn_param['mode'] and calls batchnorm_forward
BatchnormForward ==
    /\ ncalls < MaxCalls
    /\ \E mode \in Modes, D \in DimsOf(bn_param) :
         \E x \in Batches(D), gb \in GammaBeta(D) :
            LET p == [bn_param EXCEPT !.mode = mode]
                r == batchnorm_forward(x, gb[1], gb[2], p)
            IN  /\ bn_param' = r.bn_param
                /\ call' = [op |-> "batchnorm_forward", x |-> x, gamma |-> gb[1],
                            beta |-> gb[2], before |-> p, out |-> r.out,
                            cache |-> r.cache, err |-> r.err]
    /\ ncalls' = ncalls + 1
    /\ UNCHANGED rng

\* the caller builds dropout_param and calls dropout_forward
DropoutForward ==
    /\ ncalls < MaxCalls
    /\ \E x \in DropoutInputs, dropout_param \in DropoutParams :
         LET r == dropout_forward(x, dropout_param, rng)
         IN  /\ rng' = r.rng
             /\ call' = [op |-> "dropout_forward", x |-> x,
                         dropout_param |-> dropout_param, rng0 |-> rng,
                         out |-> r.out, cache |-> r.cache, err |-> r.err]
    /\ ncalls' = ncalls + 1
    /\ UNCHANGED bn_param

\* the caller passes the cache of the forward call to dropout_backward; the
\* cache holds the caller's dropout_param dictionary itself, whose mode the
\* caller may have set anew since the forward call
DropoutBackward ==
    /\ ncalls < MaxCalls
    /\ call.op = "dropout_forward"
    /\ ~IsNone(call.cache)
    /\ \E dout \in {d \in DropoutInputs : Len(d) = Len(call.x)}, mode \in Modes :
         LET cache == [Val(call.cache) EXCEPT !.dropout_param.mode = mode]
             r == dropout_backward(dout, cache)
         IN  call' = [op |-> "dropout_backward", dout |-> dout, cache |-> cache,
                      forward |-> call, dx |-> r.dx, err |-> r.err,
                      cache_after |-> r.cache]
    /\ ncalls' = ncalls + 1
    /\ UNCHANGED <<bn_param, rng>>

\* conv_forward_naive on the inputs of one of the configurations
ConvForwardOn(configs) ==
    /\ ncalls < MaxCalls
    /\ \E cf \in configs :
         LET x == Pattern(<<cf.ncf[1], cf.ncf[2], cf.H, cf.W>>, 0)
             w == Pattern(<<cf.ncf[3], cf.ncf[2], cf.HH, cf.WW>>, 1)
             b == [f \in 1..cf.ncf[3] |-> f]
             conv_param == [stride |-> cf.stride, pad |-> cf.pad]
             r == conv_forward_naive(x, w, b, conv_param)
         IN  call' = [op |-> "conv_forward_naive", x |-> x, w |-> w, b |-> b,
                      conv_param |-> conv_param, out |-> r.out, cache |-> r.cache,
                      err |-> r.err, written |-> r.written, patches |-> r.patches]
    /\ ncalls' = ncalls + 1
    /\ UNCHANGED <<bn_param, rng>>

ConvForward == ConvForwardOn(ConvConfigs)

\* max_pool_forward_naive on the inputs of one of the configurations
MaxPoolForwardOn(configs, batches, coefs) ==
    /\ ncalls < MaxCalls
    /\ \E cf \in configs, nc \in batches, a \in coefs :
         LET x == PoolInput(<<nc[1], nc[2], cf.H, cf.W>>, a)
             pool_param == [pool_height |-> cf.pool_height,
                            pool_width |-> cf.pool_width, stride |-> cf.stride]
             r == max_pool_forward_naive(x, pool_param)
         IN  call' = [op |-> "max_pool_forward_naive", x |-> x,
                      pool_param |-> pool_param, out |-> r.out, cache |-> r.cache,
                      err |-> r.err, written |-> r.written, patches |-> r.patches]
    /\ ncalls' = ncalls + 1
    /\ UNCHANGED <<bn_param, rng>>

MaxPoolForward == MaxPoolForwardOn(PoolConfigs, PoolBatches, PoolCoefs)

\* max_pool_backward_naive on the cache of the forward call
MaxPoolBackward ==
    /\ ncalls < MaxCalls
    /\ call.op = "max_pool_forward_naive"
    /\ ~IsNone(call.cache)
    /\ LET cache == Val(call.cache)
           dout == Upstream(cache.out.shape)
           r == max_pool_backward_naive(dout, cache)
       IN  call' = [op |-> "max_pool_backward_naive", dout |-> dout, cache |-> cache,
                    dx |-> r.dx, err |-> r.err, cache_after |-> r.cache,
                    patches |-> r.patches]
    /\ ncalls' = ncalls + 1
    /\ UNCHANGED <<bn_param, rng>>

\* svm_loss on a batch of scores and labels
SvmLoss ==
    /\ ncalls < MaxCalls
    /\ \E b \in SvmBatches :
         LET x == [i \in 1..Len(b) |-> b[i][1]]
             y == [i \in 1..Len(b) |-> b[i][2]]
             r == svm_loss(x, y)
         IN  call' = [op |-> "svm_loss", x |-> x, y |-> y, loss |-> r.loss,
                      dx |-> r.dx]
    /\ ncalls' = ncalls + 1
    /\ UNCHANGED <<bn_param, rng>>

\* batchnorm_backward on what the batchnorm_forward call returned as cache
BatchnormBackward ==
    /\ ncalls < MaxCalls
    /\ call.op = "batchnorm_forward"
    /\ IsNone(call.err)
    /\ \E dout \in Douts(Len(call.x), Len(call.gamma)) :
         LET r == batchnorm_backward(dout, call.cache)
         IN  call' = [op |-> "batchnorm_backward", dout |-> dout,
                      cache |-> call.cache, dx |-> r.dx, dgamma |-> r.dgamma,
                      dbeta |-> r.dbeta, err |-> r.err, cache_after |-> r.cache]
    /\ ncalls' = ncalls + 1
    /\ UNCHANGED <<bn_param, rng>>

\* batchnorm_backward_alt on what the batchnorm_forward call returned as cache
BatchnormBackwardAlt ==
    /\ ncalls < MaxCalls
    /\ call.op = "batchnorm_forward"
    /\ IsNone(call.err)
    /\ \E dout \in Douts(Len(call.x), Len(call.gamma)) :
         LET r == batchnorm_backward_alt(dout, call.cache)
         IN  call' = [op |-> "batchnorm_backward_alt", dout |-> dout,
                      cache |-> call.cache, dx |-> r.dx, dgamma |-> r.dgamma,
                      dbeta |-> r.dbeta, err |-> r.err, cache_after |-> r.cache]
    /\ ncalls' = ncalls + 1
    /\ UNCHANGED <<bn_param, rng>>

\* the caller sets bn_param['mode'] and calls spatial_batchnorm_forward
SpatialBatchnormForward ==
    /\ ncalls < MaxCalls
    /\ \E mode \in Modes, N \in 1..MaxN, hw \in SpatialHW, a \in {0, 1},
          D \in DimsOf(bn_param) :
         \E gb \in GammaBeta(D) :
            LET p == [bn_param EXCEPT !.mode = mode]
                x == SpatialInput(<<N, D, hw[1], hw[2]>>, a)
                r == spatial_batchnorm_forward(x, gb[1], gb[2], p)
            IN  /\ bn_param' = r.bn_param
                /\ call' = [op |-> "spatial_batchnorm_forward", x |-> x,
                            gamma |-> gb[1], beta |-> gb[2], before |-> p,
                            out |-> r.out, cache |-> r.cache, err |-> r.err]
    /\ ncalls' = ncalls + 1
    /\ UNCHANGED rng

\* spatial_batchnorm_backward on what the forward call returned as cache
SpatialBatchnormBackward ==
    /\ ncalls < MaxCalls
    /\ call.op = "spatial_batchnorm_forward"
    /\ IsNone(call.err)
    /\ LET dout == SpatialUpstream(call.x.shape)
           r == spatial_batchnorm_backward(dout, call.cache)
       IN  call' = [op |-> "spatial_batchnorm_backward", dout |-> dout,
                    cache |-> call.cache, x |-> call.x, dx |-> r.dx,
                    dgamma |-> r.dgamma, dbeta |-> r.dbeta, err |-> r.err,
                    cache_after |-> r.cache]
    /\ ncalls' = ncalls + 1
    /\ UNCHANGED <<bn_param, rng>>

\* affine_forward on the inputs of a shape
AffineForward ==
    /\ ncalls < MaxCalls
    /\ \E N \in 1..MaxN, dims \in AffineDims, M \in AffineM :
         LET x == Pattern(<<N, dims[1], dims[2], dims[3]>>, 2)
             w == AffineW(dims[1] * dims[2] * dims[3], M)
             b == AffineB(M)
             r == affine_forward(x, w, b)
         IN  call' = [op |-> "affine_forward", x |-> x, w |-> w, b |-> b,
                      out |-> r.out, cache |-> r.cache, err |-> r.err]
    /\ ncalls' = ncalls + 1
    /\ UNCHANGED <<bn_param, rng>>

\* affine_backward on the cache of the forward call
AffineBackward ==
    /\ ncalls < MaxCalls
    /\ call.op = "affine_forward"
    /\ ~IsNone(call.cache)
    /\ LET cache == Val(call.cache)
           dout == AffineUpstream(cache.x.shape[1], Len(cache.b))
           r == affine_backward(dout, cache)
       IN  call' = [op |-> "affine_backward", dout |-> dout, cache |-> cache,
                    dx |-> r.dx, dw |-> r.dw, db |-> r.db, err |-> r.err,
                    cache_after |-> r.cache]
    /\ ncalls' = ncalls + 1
    /\ UNCHANGED <<bn_param, rng>>

\* relu_forward on a flattened input
ReluForward ==
    /\ ncalls < MaxCalls
    /\ \E x \in DropoutInputs :
         LET r == relu_forward(x)
         IN  call' = [op |-> "relu_forward", x |-> x, out |-> r.out,
                      cache |-> r.cache, err |-> r.err]
    /\ ncalls' = ncalls + 1
    /\ UNCHANGED <<bn_param, rng>>

\* relu_backward on the cache of the forward call
ReluBackward ==
    /\ ncalls < MaxCalls
    /\ call.op = "relu_forward"
    /\ \E dout \in {d \in DropoutInputs : Len(d) = Len(call.x)} :
         LET cache == Val(call.cache)
             r == relu_backward(dout, cache)
         IN  call' = [op |-> "relu_backward", dout |-> dout, cache |-> cache,
                      dx |-> r.dx, err |-> r.err, cache_after |-> r.cache]
    /\ ncalls' = ncalls + 1
    /\ UNCHANGED <<bn_param, rng>>

\* conv_backward_naive on the cache of the forward call
ConvBackward ==
    /\ ncalls < MaxCalls
    /\ call.op = "conv_forward_naive"
    /\ ~IsNone(call.cache)
    /\ LET cache == Val(call.cache)
           dout == Upstream(Val(call.out).shape)
           r == conv_backward_naive(dout, cache)
       IN  call' = [op |-> "conv_backward_naive", dout |-> dout, cache |-> cache,
                    dx |-> r.dx, dw |-> r.dw, db |-> r.db, err |-> r.err,
                    cache_after |-> r.cache, patches |-> r.patches]
    /\ ncalls' = ncalls + 1
    /\ UNCHANGED <<bn_param, rng>>

NextBN == BatchnormForward

\* the batch-normalization calls (which draw no random numbers), from one
\* state of the generator
InitBN == Init /\ rng = 0

SpecBN == InitBN /\ [][NextBN]_vars

\* one call of a kernel that keeps no state between calls
FirstCall == ncalls = 0

NextConv == FirstCall /\ ConvForward

\* (these kernels use neither bn_param nor the generator)
InitPure == Init /\ bn_param.eps = None /\ rng = 0

SpecConv == InitPure /\ [][NextConv]_vars

NextPool == (FirstCall /\ MaxPoolForward) \/ MaxPoolBackward

SpecPool == InitPure /\ [][NextPool]_vars

NextDropout == DropoutForward \/ DropoutBackward

\* the dropout calls (which use no bn_param), beside one bn_param
InitDropout == Init /\ bn_param.eps = None

SpecDropout == InitDropout /\ [][NextDropout]_vars

NextLoss == FirstCall /\ SvmLoss

SpecLoss == InitPure /\ [][NextLoss]_vars

\* the batch normalizations and their backward passes, with an eps whose
\* powers the integers of the model hold
NextBNBackward ==
    \/ BatchnormForward
    \/ BatchnormBackward
    \/ BatchnormBackwardAlt

InitBNBackward == Init /\ bn_param.eps # None /\ rng = 0

SpecBNBackward == InitBNBackward /\ [][NextBNBackward]_vars

\* the spatial batch normalizations and their backward passes
NextSpatial == SpatialBatchnormForward \/ SpatialBatchnormBackward

SpecSpatial == InitBNBackward /\ [][NextSpatial]_vars

\* a few inputs of the convolution and of the pooling, for the sequences of
\* calls of all the kernels
ConvFew ==
    {cf \in ConvConfigs :
        /\ cf.ncf = <<1, 1, 1>> /\ cf.H = MaxHW /\ cf.W = MaxHW
        /\ cf.HH = 2 /\ cf.WW = 2 /\ cf.pad = None}
PoolFew ==
    {cf \in PoolConfigs :
        /\ cf.H = MaxHW /\ cf.W = MaxHW
        /\ cf.pool_height = Some(2) /\ cf.pool_width = Some(2)}
PoolCoefsFew == {<<0, 2, 1, 0>>, <<0, 0, 0, 0>>}

\* any sequence of calls of the kernels
\* the kernels that slide a window over their input
NextWindows ==
    \/ FirstCall /\ (ConvForward
                        \/ MaxPoolForwardOn(PoolConfigs, PoolBatches, PoolCoefsFew))
    \/ ConvBackward
    \/ MaxPoolBackward

SpecWindows == InitPure /\ [][NextWindows]_vars

\* a forward call of a kernel that has a backward pass
ForwardCall ==
    \/ AffineForward
    \/ ReluForward
    \/ BatchnormForward
    \/ DropoutForward
    \/ ConvForward
    \/ MaxPoolForwardOn(PoolConfigs, PoolBatches, PoolCoefsFew)
    \/ SpatialBatchnormForward

\* the backward pass on the cache of the forward call before it
BackwardCall ==
    \/ AffineBackward
    \/ ReluBackward
    \/ BatchnormBackward
    \/ BatchnormBackwardAlt
    \/ DropoutBackward
    \/ ConvBackward
    \/ MaxPoolBackward
    \/ SpatialBatchnormBackward

NextBackward == (FirstCall /\ ForwardCall) \/ BackwardCall

SpecBackward == InitBNBackward /\ [][NextBackward]_vars

Next ==
    \/ BatchnormForward
    \/ DropoutForward
    \/ DropoutBackward
    \/ ConvForwardOn(ConvFew)
    \/ MaxPoolForwardOn(PoolFew, {<<1, 1>>}, PoolCoefsFew)
    \/ MaxPoolBackward

Spec == Init /\ [][Next]_vars

---------------------------------------------------------------------------
(* Claims about batchnorm_forward *)

IsBatchnorm(mode) == call.op = "batchnorm_forward" /\ call.before.mode = mode
CallD == Len(call.x[1])
CallN == Len(call.x)
CallMomentum == Get(call.before.momentum, DefaultMomentum)
CallEps == Get(call.before.eps, DefaultEps)
OldMean == Get(call.before.running_mean, Zeros(CallD))
OldVar == Get(call.before.running_var, Zeros(CallD))

\* the mean of feature d over the batch, and its divide-by-N variance
\* E[x^2] - E[x]^2
BatchMean(x, d) == RDiv(RSum(Column(x, d)), R(Len(x)))
BatchVariance(x, d) ==
    RSub(RDiv(RSum([i \in 1..Len(x) |-> RMul(x[i][d], x[i][d])]), R(Len(x))),
         RMul(BatchMean(x, d), BatchMean(x, d)))

\* m * old + (1 - m) * stat
Decayed(m, old, stat) == RAdd(RMul(m, old), RMul(RSub(R(1), m), stat))

\* C1: after every train-mode batchnorm_forward call, bn_param's running_mean
\* is momentum*old_running_mean + (1-momentum)*batch_mean and its running_var
\* is momentum*old_running_var + (1-momentum)*batch_variance, old being the
\* value held before the call (zeros when there was none) and the variance the
\* divide-by-N variance of the call's input.
C1_RunningEma ==
    IsBatchnorm("train") =>
        /\ ~IsNone(bn_param.running_mean)
        /\ ~IsNone(bn_param.running_var)
        /\ \A d \in 1..CallD :
              /\ Val(bn_param.running_mean)[d] =
                    Decayed(CallMomentum, OldMean[d], BatchMean(call.x, d))
              /\ Val(bn_param.running_var)[d] =
                    Decayed(CallMomentum, OldVar[d], BatchVariance(call.x, d))

\* a second train-mode call, on running statistics that are not zero, with a
\* batch of two different examples
C1_Witness ==
    /\ IsBatchnorm("train")
    /\ ~IsNone(call.before.running_mean)
    /\ \E d \in 1..CallD : OldMean[d] # R(0) /\ OldVar[d] # R(0)
    /\ CallN = 2
    /\ call.x[1] # call.x[2]

\* whether the surd s, times sqrt(r), is the rational t
TimesSqrtIs(s, r, t) ==
    IF s.coef = R(0)
    THEN /\ RMul(RMul(s.rat, s.rat), r) = RMul(t, t)
         /\ (s.rat[1] > 0) = (t[1] > 0)
         /\ (s.rat[1] < 0) = (t[1] < 0)
    ELSE s.rat = R(0) /\ s.rad = r /\ RMul(s.coef, r) = t

\* whether out is (x - mean) / sqrt(var + eps) * gamma + beta
IsNormalized(out, mean, var) ==
    /\ Len(out) = CallN
    /\ \A i \in 1..CallN :
          /\ Len(out[i]) = CallD
          /\ \A d \in 1..CallD :
                TimesSqrtIs([out[i][d] EXCEPT !.rat = RSub(@, call.beta[d])],
                            RAdd(var[d], CallEps),
                            RMul(RSub(call.x[i][d], mean[d]), call.gamma[d]))

\* C2 as stated: a test-mode call leaves the running_mean and running_var
\* entries of bn_param as they were before the call, and computes the output
\* from that running state.
C2_TestKeepsEntries ==
    IsBatchnorm("test") =>
        /\ bn_param.running_mean = call.before.running_mean
        /\ bn_param.running_var = call.before.running_var
        /\ ~IsNone(call.out)
        /\ IsNormalized(Val(call.out), OldMean, OldVar)

\* C2, amended: a test-mode call leaves the values of the running statistics
\* as they were (the entries bn_param held or, where it held none, zeros,
\* which the call then stores into bn_param), and the output is the input
\* normalized by those values, not by the statistics of the batch.
C2_TestKeepsValues ==
    IsBatchnorm("test") =>
        /\ bn_param.running_mean = Some(OldMean)
        /\ bn_param.running_var = Some(OldVar)
        /\ ~IsNone(call.out)
        /\ IsNormalized(Val(call.out), OldMean, OldVar)

\* a test-mode call after a train-mode one, on a batch whose own statistics
\* differ from the running ones
C2_Witness ==
    /\ IsBatchnorm("test")
    /\ ~IsNone(call.before.running_mean)
    /\ \E d \in 1..CallD :
          /\ OldMean[d] # BatchMean(call.x, d)
          /\ OldVar[d] # BatchVariance(call.x, d)
          /\ OldVar[d] # R(0)

\* C3: a call with a mode other than 'train' or 'test' ends in an error that
\* names the mode, returns no output, and leaves bn_param's running_mean and
\* running_var exactly as they were.
C3_InvalidModeRaises ==
    (call.op = "batchnorm_forward" /\ call.before.mode \notin {"train", "test"}) =>
        /\ ~IsNone(call.err)
        /\ Val(call.err).type = "ValueError"
        /\ Val(call.err).value = call.before.mode
        /\ IsNone(call.out)
        /\ IsNone(call.cache)
        /\ bn_param.running_mean = call.before.running_mean
        /\ bn_param.running_var = call.before.running_var

\* an invalid-mode call on a bn_param that holds no running statistics, and
\* still holds none afterwards
C3_Witness ==
    /\ call.op = "batchnorm_forward"
    /\ call.before.mode = "valid"
    /\ IsNone(call.before.running_mean)
    /\ IsNone(bn_param.running_mean)

---------------------------------------------------------------------------
(* Claims about dropout_forward and dropout_backward *)

IsDropoutForward(mode) ==
    call.op = "dropout_forward" /\ call.dropout_param.mode = mode
IsDropoutBackward(mode) ==
    call.op = "dropout_backward" /\ call.cache.dropout_param.mode = mode

\* C4: dropout_forward and dropout_backward called with a mode other than
\* 'train' or 'test' fail with an error that identifies the mode value, and
\* return nothing.
C4_InvalidModeFails ==
    /\ (call.op = "dropout_forward"
          /\ call.dropout_param.mode \notin {"train", "test"}) =>
            /\ ~IsNone(call.err)
            /\ Val(call.err).value = call.dropout_param.mode
    /\ (call.op = "dropout_backward"
          /\ call.cache.dropout_param.mode \notin {"train", "test"}) =>
            /\ ~IsNone(call.err)
            /\ Val(call.err).value = call.cache.dropout_param.mode

RECURSIVE NthState(_, _)
\* the generator's state k draws after state s
NthState(s, k) == IF k = 0 THEN s ELSE Lcg(NthState(s, k - 1))

\* the mask the draws that follow np.random.seed(seed) give
SeededMask(seed, p, L) ==
    [k \in 1..L |->
       IF RLt(Frac(NthState(SeedState(seed), k), RngMod), p) THEN 0 ELSE 1]

\* C6: a train-mode dropout_forward call with a seed returns a mask and an
\* output that depend on the seed, p and the input alone, whatever state
\* earlier calls left the generator in: any two such calls with the same
\* seed, p and input return the same mask and the same output.
C6_SeededDeterministic ==
    (IsDropoutForward("train") /\ ~IsNone(call.dropout_param.seed)) =>
        LET mask == SeededMask(Val(call.dropout_param.seed),
                               call.dropout_param.p, Len(call.x))
        IN  /\ ~IsNone(call.cache)
            /\ Val(call.cache).mask = Some(mask)
            /\ call.out = Some([k \in 1..Len(call.x) |-> call.x[k] * mask[k]])

\* a seeded train-mode call, after another call, that finds the generator in
\* a state other than the seed's and masks some elements but not all
C6_Witness ==
    /\ IsDropoutForward("train")
    /\ ~IsNone(call.dropout_param.seed)
    /\ ncalls = 2
    /\ call.rng0 # SeedState(Val(call.dropout_param.seed))
    /\ Val(Val(call.cache).mask) = <<0, 1>>

\* C7: in test mode dropout_forward returns the input, element for element,
\* with a None mask in the cache, and dropout_backward on that cache returns
\* the upstream gradient unchanged.
C7_TestIdentity ==
    /\ IsDropoutForward("test") =>
          /\ call.out = Some(call.x)
          /\ ~IsNone(call.cache)
          /\ IsNone(Val(call.cache).mask)
    /\ (IsDropoutBackward("test") /\ call.forward.dropout_param.mode = "test") =>
          /\ IsNone(call.cache.mask)
          /\ call.dx = Some(call.dout)

\* a test-mode forward call with p = 1/2 followed by the backward call on
\* its cache
C7_Witness ==
    /\ IsDropoutBackward("test")
    /\ call.forward.dropout_param.mode = "test"
    /\ call.forward.dropout_param.p = Frac(1, 2)
    /\ Len(call.dout) = 2
    /\ call.dout # call.forward.x

---------------------------------------------------------------------------
(* Claims about conv_forward_naive *)

CallStride == Get(call.conv_param.stride, 1)
CallPad == Get(call.conv_param.pad, 0)

\* C8: for input (N, C, H, W), filters (F, C, HH, WW), stride s and pad p,
\* conv_forward_naive returns an output of shape
\* (N, F, 1 + (H + 2p - HH)/s, 1 + (W + 2p - WW)/s), the divisions rounded
\* down, and the loop writes every position of it.
C8_ConvShape ==
    call.op = "conv_forward_naive" =>
        LET H1 == 1 + (call.x.shape[3] + 2 * CallPad - call.w.shape[3]) \div CallStride
            W1 == 1 + (call.x.shape[4] + 2 * CallPad - call.w.shape[4]) \div CallStride
        IN  /\ ~IsNone(call.out)
            /\ Val(call.out).shape = <<call.x.shape[1], call.w.shape[1], H1, W1>>
            /\ DOMAIN Val(call.out).data = Idx4(Val(call.out).shape)
            /\ call.written = (0..(H1 - 1)) \X (0..(W1 - 1))

\* a padded call with stride 2 that does not divide evenly, on an input and
\* filters that are not square, with two examples and two filters
C8_Witness ==
    /\ call.op = "conv_forward_naive"
    /\ ~IsNone(call.out)
    /\ CallPad = 1
    /\ CallStride = 2
    /\ call.x.shape = <<2, 1, 3, 2>>
    /\ call.w.shape = <<2, 1, 2, 3>>
    /\ Val(call.out).shape = <<2, 2, 2, 1>>

---------------------------------------------------------------------------
(* Claims about the state the kernels share *)

\* C5: the only state a call writes and a later call reads is the running
\* mean and variance of bn_param: no call writes other state (here the
\* generator of numpy, the other state of the process) that can change the
\* result of a later call; that is, whenever a call changes the generator,
\* every later dropout_forward call returns what it would have returned had
\* the generator been left alone.
C5_OnlyRunningStateCarried ==
    [][\/ rng' = rng
       \/ \A x \in DropoutInputs, dropout_param \in DropoutParams :
             dropout_forward(x, dropout_param, rng').out =
                 dropout_forward(x, dropout_param, rng).out]_vars

---------------------------------------------------------------------------
(* Claims about max_pool_backward_naive *)

IsPoolBackward == call.op = "max_pool_backward_naive"
PoolX == call.cache.x
PoolHH == Get(call.cache.pool_param.pool_height, PoolX.shape[3])
PoolWW == Get(call.cache.pool_param.pool_width, PoolX.shape[4])
PoolStride == Get(call.cache.pool_param.stride, 1)

\* the pooling windows, named by their output position <<i, j>>
PoolWindows ==
    (0..(call.dout.shape[3] - 1)) \X (0..(call.dout.shape[4] - 1))

\* whether the input location t lies in window k
InWindow(t, k) ==
    /\ t[3] >= PoolStride * k[1] /\ t[3] < PoolStride * k[1] + PoolHH
    /\ t[4] >= PoolStride * k[2] /\ t[4] < PoolStride * k[2] + PoolWW

\* whether the input at location t attains the maximum of window k
IsArgmax(t, k) ==
    /\ InWindow(t, k)
    /\ \A u \in Idx4(PoolX.shape) :
          (u[1] = t[1] /\ u[2] = t[2] /\ InWindow(u, k)) =>
              PoolX.data[u] <= PoolX.data[t]

\* the windows whose maximum is attained at t
ArgmaxOf(t) == {k \in PoolWindows : IsArgmax(t, k)}

\* every window of every example and channel has one location of maximum
UniqueMaxima ==
    \A k \in PoolWindows, t \in Idx4(PoolX.shape), u \in Idx4(PoolX.shape) :
        (IsArgmax(t, k) /\ IsArgmax(u, k) /\ u[1] = t[1] /\ u[2] = t[2]) => u = t

RECURSIVE UpstreamSum(_, _)
\* the sum of the upstream values of the windows K of example and channel t
UpstreamSum(t, K) ==
    IF K = {} THEN 0
    ELSE LET k == CHOOSE v \in K : TRUE
         IN  call.dout.data[<<t[1], t[2], k[1], k[2]>>] + UpstreamSum(t, K \ {k})

\* C9 as stated: for an input with a unique maximum in every pooling window,
\* the gradient is zero except at the argmax positions of the windows, where
\* it equals the upstream value of the window.
C9_ArgmaxGetsUpstream ==
    (IsPoolBackward /\ UniqueMaxima) =>
        /\ ~IsNone(call.dx)
        /\ \A t \in Idx4(PoolX.shape) :
              /\ ArgmaxOf(t) = {} => Val(call.dx).data[t] = 0
              /\ \A k \in ArgmaxOf(t) :
                    Val(call.dx).data[t] = call.dout.data[<<t[1], t[2], k[1], k[2]>>]

\* C9, amended: for an input with a unique maximum in every pooling window,
\* the gradient is zero except at the argmax positions of the windows, where
\* it equals the sum of the upstream values of the windows whose maximum is
\* there (one upstream value where the windows do not share their argmax).
C9_ArgmaxGetsUpstreamSum ==
    (IsPoolBackward /\ UniqueMaxima) =>
        /\ ~IsNone(call.dx)
        /\ Val(call.dx).shape = PoolX.shape
        /\ \A t \in Idx4(PoolX.shape) :
              /\ ArgmaxOf(t) = {} => Val(call.dx).data[t] = 0
              /\ ArgmaxOf(t) # {} =>
                    Val(call.dx).data[t] = UpstreamSum(t, ArgmaxOf(t))

\* unique maxima in 2 x 2 windows that overlap, one location being the
\* argmax of several windows and another the argmax of one
C9_Witness ==
    /\ IsPoolBackward
    /\ UniqueMaxima
    /\ PoolHH = 2 /\ PoolWW = 2 /\ PoolStride = 1
    /\ PoolX.shape[1] = 2
    /\ \E t \in Idx4(PoolX.shape) : Cardinality(ArgmaxOf(t)) >= 2
    /\ \E t \in Idx4(PoolX.shape) : Cardinality(ArgmaxOf(t)) = 1

\* C10: when several locations of a window tie for its maximum, each of them
\* receives the whole upstream gradient of the window, and the contributions
\* of overlapping windows add up: the gradient at a location is the sum of
\* the upstream values of all the windows it lies in and whose maximum it
\* attains.
C10_TiesGetFullGradient ==
    IsPoolBackward =>
        /\ ~IsNone(call.dx)
        /\ \A t \in Idx4(PoolX.shape) :
              Val(call.dx).data[t] =
                  UpstreamSum(t, ArgmaxOf(t))

\* two locations tie for the maximum of a window, and one of them also
\* attains the maximum of another window
C10_Witness ==
    /\ IsPoolBackward
    /\ ~IsNone(call.dx)
    /\ \E k \in PoolWindows, t \in Idx4(PoolX.shape), u \in Idx4(PoolX.shape) :
          /\ t # u /\ t[1] = u[1] /\ t[2] = u[2]
          /\ IsArgmax(t, k) /\ IsArgmax(u, k)
          /\ Cardinality(ArgmaxOf(t)) >= 2
          /\ Val(call.dx).data[t] > call.dout.data[<<t[1], t[2], k[1], k[2]>>]
          /\ Val(call.dx).data[u] = call.dout.data[<<t[1], t[2], k[1], k[2]>>]

---------------------------------------------------------------------------
(* Claims about svm_loss *)

\* the correct class score of every example exceeds every other score of the
\* example by at least 1
SeparatedByOne ==
    \A i \in 1..Len(call.x) : \A j \in 1..Len(call.x[i]) :
        j # call.y[i] + 1 =>
            ~RLt(RSub(call.x[i][call.y[i] + 1], call.x[i][j]), R(1))

\* C11: svm_loss on scores where, for every example, the correct class score
\* exceeds every other class score by at least 1 returns the loss 0 and a
\* gradient that is zero in every entry.
C11_SeparatedLossZero ==
    (call.op = "svm_loss" /\ SeparatedByOne) =>
        /\ call.loss = R(0)
        /\ Len(call.dx) = Len(call.x)
        /\ \A i \in 1..Len(call.x) :
              call.dx[i] = [j \in 1..Len(call.x[i]) |-> R(0)]

\* two examples of three classes, each separated from its runner-up by exactly 1
C11_Witness ==
    /\ call.op = "svm_loss"
    /\ SeparatedByOne
    /\ call.x = <<<<R(2), R(1), R(0)>>, <<R(3), R(1), R(2)>>>>
    /\ call.y = <<0, 0>>
    /\ call.loss = R(0)

---------------------------------------------------------------------------
(* Claims about the shapes of the gradients *)

\* a is an array of the shape: it has an element at every index of the
\* shape and at no other
HasShape4(a, shape) == a.shape = shape /\ DOMAIN a.data = Idx4(shape)
\* m is a matrix of rows rows and cols columns
HasShape2(m, rows, cols) ==
    DOMAIN m = 1..rows /\ \A k \in 1..rows : DOMAIN m[k] = 1..cols
\* v is a vector of n entries
HasShape1(v, n) == DOMAIN v = 1..n

AffineShapes ==
    call.op = "affine_backward" =>
        LET x == call.cache.x
            D == x.shape[2] * x.shape[3] * x.shape[4]
            M == Len(call.cache.b)
        IN  /\ IsNone(call.err)
            /\ HasShape4(Val(call.dx), x.shape)
            /\ HasShape2(Val(call.dw), D, M)
            /\ HasShape1(Val(call.db), M)

ConvShapes ==
    call.op = "conv_backward_naive" =>
        /\ IsNone(call.err)
        /\ HasShape4(Val(call.dx), call.cache.x.shape)
        /\ HasShape4(Val(call.dw), call.cache.w.shape)
        /\ HasShape1(Val(call.db), call.cache.w.shape[1])

PoolShapes ==
    call.op = "max_pool_backward_naive" =>
        /\ IsNone(call.err)
        /\ HasShape4(Val(call.dx), call.cache.x.shape)

\* (the forward call in test mode returns no cache, and the backward call on
\* it raises before it returns anything)
SpatialShapes ==
    call.op = "spatial_batchnorm_backward" =>
        /\ IsNone(call.err) = ~IsNone(call.cache)
        /\ IsNone(call.err) => HasShape4(Val(call.dx), call.x.shape)

\* C12: every backward kernel returns gradients of the shapes of the forward
\* inputs: affine_backward a dx of x's shape, a dw of shape (D, M) and a db of
\* shape (M,); conv_backward_naive a dx of shape (N, C, H, W), the padding
\* stripped, a dw of shape (F, C, HH, WW) and a db of shape (F,);
\* max_pool_backward_naive and spatial_batchnorm_backward a dx of shape
\* (N, C, H, W).
C12_GradientShapes == AffineShapes /\ ConvShapes /\ PoolShapes /\ SpatialShapes

\* a convolution with padding, whose dx has the shape of the unpadded input
C12_Witness ==
    /\ call.op = "conv_backward_naive"
    /\ Get(call.cache.conv_param.pad, 0) >= 1
    /\ call.cache.x.shape[3] # call.cache.x.shape[4]
    /\ IsNone(call.err)
    /\ HasShape4(Val(call.dx), call.cache.x.shape)

---------------------------------------------------------------------------
(* Claims about the spatial batch normalization *)

IsSpatial(op) ==
    /\ call.op = op
    /\ (IF op = "spatial_batchnorm_forward" THEN call.x ELSE call.dout).shape[3] = 1
    /\ (IF op = "spatial_batchnorm_forward" THEN call.x ELSE call.dout).shape[4] = 1

\* the (N, C) matrix of an array of shape (N, C, 1, 1)
Squeezed(a) ==
    [n \in 1..a.shape[1] |-> [c \in 1..a.shape[2] |-> a.data[<<n - 1, c - 1, 0, 0>>]]]

\* the array of shape (N, C, 1, 1) of an (N, C) matrix
Unsqueezed(m) ==
    [shape |-> <<Len(m), Len(m[1]), 1, 1>>,
     data |-> [t \in Idx4(<<Len(m), Len(m[1]), 1, 1>>) |-> m[t[1] + 1][t[2] + 1]]]

SpatialForwardAsPlain ==
    IsSpatial("spatial_batchnorm_forward") =>
        LET r == batchnorm_forward(Squeezed(call.x), call.gamma, call.beta,
                                   call.before)
        IN  /\ call.err = r.err
            /\ bn_param = r.bn_param
            /\ IsNone(r.err) => Val(call.out) = Unsqueezed(Val(r.out))

SpatialBackwardAsPlain ==
    IsSpatial("spatial_batchnorm_backward") =>
        LET r == batchnorm_backward(Squeezed(call.dout), call.cache)
        IN  /\ call.err = r.err
            /\ IsNone(r.err) =>
                  /\ Val(call.dx) = Unsqueezed(Val(r.dx))
                  /\ call.dgamma = r.dgamma
                  /\ call.dbeta = r.dbeta

\* C13: on an input of shape (N, C, 1, 1), spatial_batchnorm_forward and
\* spatial_batchnorm_backward give what batchnorm_forward and
\* batchnorm_backward give on the (N, C) input: the same outputs, the same
\* dx, dgamma and dbeta, and the same update of the running statistics.
C13_SpatialOneByOneIsPlain == SpatialForwardAsPlain /\ SpatialBackwardAsPlain

\* a backward call on two examples, whose dx has an irrational entry
C13_Witness ==
    /\ IsSpatial("spatial_batchnorm_backward")
    /\ call.dout.shape = <<2, 2, 1, 1>>
    /\ IsNone(call.err)
    /\ Val(call.dx) =
          Unsqueezed(Val(batchnorm_backward(Squeezed(call.dout), call.cache).dx))
    /\ \E t \in Idx4(call.dout.shape) : Val(call.dx).data[t].coef # R(0)

---------------------------------------------------------------------------
(* Claims about the two backward passes of the batch normalization *)

\* a backward call, in either variant, on the cache of a train-mode forward call
IsBnBackward ==
    /\ call.op \in {"batchnorm_backward", "batchnorm_backward_alt"}
    /\ ~IsNone(call.cache)

\* the sum over the batch of upstream times normalized input, for feature d
BatchSumTimesNormalized(d) ==
    SSum([i \in 1..Len(call.dout) |->
            SMul(SOfR(call.dout[i][d]), Val(call.cache).xn[i][d])])

\* the sum over the batch of the upstream gradient, for feature d
BatchSumUpstream(d) == RSum([i \in 1..Len(call.dout) |-> call.dout[i][d]])

\* C14: on the cache of every train-mode batchnorm_forward call and every
\* upstream gradient, batchnorm_backward and batchnorm_backward_alt return
\* the same dx, dgamma and dbeta, dgamma being the sum over the batch of
\* upstream times normalized input and dbeta the sum over the batch of
\* upstream.
C14_BackwardVariantsAgree ==
    IsBnBackward =>
        LET direct == batchnorm_backward(call.dout, call.cache)
            alt == batchnorm_backward_alt(call.dout, call.cache)
            D == Len(call.dout[1])
        IN  /\ IsNone(call.err) /\ IsNone(direct.err) /\ IsNone(alt.err)
            /\ direct.dx = alt.dx
            /\ direct.dgamma = alt.dgamma
            /\ direct.dbeta = alt.dbeta
            /\ call.dx = direct.dx
            /\ DOMAIN Val(call.dgamma) = 1..D
            /\ DOMAIN Val(call.dbeta) = 1..D
            /\ \A d \in 1..D :
                  /\ Val(call.dgamma)[d] = BatchSumTimesNormalized(d)
                  /\ Val(call.dbeta)[d] = BatchSumUpstream(d)

\* a call of the direct variant on a batch of two different examples, whose
\* dx has an irrational entry and is the dx of the other variant
C14_Witness ==
    /\ call.op = "batchnorm_backward"
    /\ ~IsNone(call.cache)
    /\ Len(call.dout) = 2
    /\ Val(call.cache).x[1] # Val(call.cache).x[2]
    /\ call.dout[1] # call.dout[2]
    /\ \E i \in 1..2, d \in 1..2 : Val(call.dx)[i][d].coef # R(0)
    /\ call.dx = batchnorm_backward_alt(call.dout, call.cache).dx

---------------------------------------------------------------------------
(* Claims about what the backward kernels leave alone *)

BackwardOps ==
    {"affine_backward", "relu_backward", "batchnorm_backward",
     "batchnorm_backward_alt", "dropout_backward", "conv_backward_naive",
     "max_pool_backward_naive", "spatial_batchnorm_backward"}

\* C15: no backward kernel (affine, relu, batch normalization in both
\* variants, dropout, convolution, max-pooling, spatial batch normalization)
\* modifies a value of the cache it is given, and none touches bn_param: after
\* the backward call the cache and bn_param are what they were before it.
C15_BackwardLeavesCache ==
    [][(call' # call /\ call'.op \in BackwardOps) =>
          /\ call'.cache_after = call'.cache
          /\ bn_param' = bn_param]_vars

\* a backward call of the convolution whose db is not the b of the cache, and
\* one of the batch normalization whose dx is not an array of the cache
C15_Witness ==
    \/ /\ call.op = "conv_backward_naive"
       /\ IsNone(call.err)
       /\ Val(call.db) # call.cache.b
       /\ call.cache_after = call.cache
    \/ /\ call.op = "batchnorm_backward"
       /\ IsNone(call.err)
       /\ Val(call.dx) # Val(call.cache).xn
       /\ call.cache_after = call.cache

---------------------------------------------------------------------------
(* Claims about the dropout in train mode *)

\* the k-th uniform number of a forward call fwd: the generator starts from
\* the seed if the call has one, and from the state it was left in otherwise
DrawOf(fwd, k) ==
    LET s0 == IF IsNone(fwd.dropout_param.seed) THEN fwd.rng0
              ELSE SeedState(Val(fwd.dropout_param.seed))
    IN  Frac(NthState(s0, k), RngMod)

\* whether the forward call fwd drops its k-th element
Dropped(fwd, k) == RLt(DrawOf(fwd, k), fwd.dropout_param.p)

TrainForwardDrops ==
    IsDropoutForward("train") =>
        /\ IsNone(call.err)
        /\ DOMAIN Val(call.out) = 1..Len(call.x)
        /\ \A k \in 1..Len(call.x) :
              /\ Val(call.out)[k] = (IF Dropped(call, k) THEN 0 ELSE call.x[k])
              /\ Val(call.out)[k] \in {0, call.x[k]}
        /\ call.dropout_param.p = R(0) => call.out = Some(call.x)
        /\ call.dropout_param.p = R(1) =>
              \A k \in 1..Len(call.x) : Val(call.out)[k] = 0

TrainBackwardMasks ==
    (IsDropoutBackward("train") /\ call.forward.dropout_param.mode = "train") =>
        /\ IsNone(call.err)
        /\ DOMAIN Val(call.dx) = 1..Len(call.dout)
        /\ \A k \in 1..Len(call.dout) :
              /\ Val(call.dx)[k] = (IF Dropped(call.forward, k) THEN 0 ELSE call.dout[k])
              /\ Val(call.dx)[k] = call.dout[k] * Val(Val(call.forward.cache).mask)[k]

---------------------------------------------------------------------------
(* Claims about the windows of the convolution and of the pooling *)

ConvOps == {"conv_forward_naive", "conv_backward_naive"}
PoolOps == {"max_pool_forward_naive", "max_pool_backward_naive"}
IsForwardOp == call.op \in {"conv_forward_naive", "max_pool_forward_naive"}

\* the input, the parameters and the window of the call
WinX == IF IsForwardOp THEN call.x ELSE call.cache.x
WinParam ==
    IF call.op = "conv_forward_naive" THEN call.conv_param
    ELSE IF call.op = "conv_backward_naive" THEN call.cache.conv_param
    ELSE IF call.op = "max_pool_forward_naive" THEN call.pool_param
    ELSE call.cache.pool_param
WinPad == IF call.op \in ConvOps THEN Get(WinParam.pad, 0) ELSE 0
WinStride == Get(WinParam.stride, 1)
WinHH ==
    IF call.op = "conv_forward_naive" THEN call.w.shape[3]
    ELSE IF call.op = "conv_backward_naive" THEN call.cache.w.shape[3]
    ELSE Get(WinParam.pool_height, WinX.shape[3])
WinWW ==
    IF call.op = "conv_forward_naive" THEN call.w.shape[4]
    ELSE IF call.op = "conv_backward_naive" THEN call.cache.w.shape[4]
    ELSE Get(WinParam.pool_width, WinX.shape[4])
\* the output the loops go over: H' = WinOut.shape[3], W' = WinOut.shape[4]
WinOut == IF IsForwardOp THEN Val(call.out) ELSE call.dout

\* C17: for every configuration with stride >= 1, pad >= 0 and a window no
\* larger than the padded input, also when the stride does not divide evenly,
\* every window the loops of conv_forward_naive, conv_backward_naive,
\* max_pool_forward_naive and max_pool_backward_naive visit lies inside the
\* padded input: stride*i + HH <= H + 2*pad and stride*j + WW <= W + 2*pad for
\* all i < H', j < W' (pad = 0 for the pooling), and every patch taken has the
\* full size HH x WW.
C17_WindowsInside ==
    call.op \in ConvOps \cup PoolOps =>
        /\ IsNone(call.err)
        /\ call.patches =
              {<<i, j, WinHH, WinWW>> : i \in 0..(WinOut.shape[3] - 1),
                                        j \in 0..(WinOut.shape[4] - 1)}
        /\ \A i \in 0..(WinOut.shape[3] - 1), j \in 0..(WinOut.shape[4] - 1) :
              /\ WinStride * i + WinHH <= WinX.shape[3] + 2 * WinPad
              /\ WinStride * j + WinWW <= WinX.shape[4] + 2 * WinPad

\* a backward call of either kernel whose stride does not divide evenly, with
\* more than one window along the height
C17_Witness ==
    /\ call.op \in {"conv_backward_naive", "max_pool_backward_naive"}
    /\ IsNone(call.err)
    /\ WinStride = 2
    /\ (WinX.shape[3] + 2 * WinPad - WinHH) % WinStride = 1
    /\ WinOut.shape[3] >= 2
    /\ Cardinality(call.patches) = WinOut.shape[3] * WinOut.shape[4]
    /\ \A q \in call.patches : q[3] = WinHH /\ q[4] = WinWW

====
